---- MODULE Spec2Model ----
(***************************************************************************)
(* Model of the gleam agent's Execute RPC                                  *)
(* (distributed/agent/agent_grpc_server.go): the allocation ledger, the    *)
(* supervisor executeCommand, the stdout/stderr pumps, the keepalive       *)
(* pulse, the exit waiter and the child process they supervise.            *)
(*                                                                         *)
(* Every goroutine of a call is a process with its own program counter.    *)
(* stream.Send is entered in one step and completes in another, because    *)
(* the emitters of one call share the stream without any lock.             *)
(***************************************************************************)
EXTENDS Integers, Sequences, FiniteSets, TLC

\* ------------------------------------------------------------------ bounds
\* most bytes a child writes to stdout / stderr in the streaming scenario
MaxOut == 1025
MaxErr == 1
\* most keepalive ticks that fire during one call in the streaming scenario
MaxTicks == 1
\* bytes a pipe between a child and the agent holds, scaled down to one slot
\* of one page: a write into a full pipe blocks
PipeCap == 4096

\* ------------------------------------------------------- program constants
\* buffer := make([]byte, 1024)
BufSize == 1024
\* errChan := make(chan error, 3)
ErrChanCap == 3

\* the Execute calls of the model
Calls == {1, 2}

\* The scenarios: one call with a talkative child and a ticking keepalive,
\* or two concurrent calls, the first with a silent child and the second
\* one whose child cannot be started, or one call whose child writes more
\* to stdout than the pipe holds; in these the marshalled instructions are
\* one byte and the child leaves its stdin alone. Then one call with a
\* silent child that reads or closes its stdin, whose instructions marshal
\* to no bytes at all, or to more bytes than the stdin pipe holds.
Scenarios ==
  { [calls |-> {1},    spawn |-> {1}, out |-> MaxOut, err |-> MaxErr,
     ticks |-> MaxTicks, msg |-> 1, stdin |-> "ignored"],
    [calls |-> {1, 2}, spawn |-> {1}, out |-> 0,      err |-> 0,
     ticks |-> 0,        msg |-> 1, stdin |-> "ignored"],
    [calls |-> {1},    spawn |-> {1}, out |-> PipeCap + BufSize,
     err |-> 0,      ticks |-> 0, msg |-> 1, stdin |-> "ignored"],
    [calls |-> {1},    spawn |-> {1}, out |-> 0,      err |-> 0,
     ticks |-> 0,        msg |-> 0, stdin |-> "used"],
    [calls |-> {1},    spawn |-> {1}, out |-> 0,      err |-> 0,
     ticks |-> 0,        msg |-> PipeCap + 1, stdin |-> "used"] }

VARIABLES
  env,          \* the scenario: which calls arrive, what the children may do
  ledger,       \* *as.allocatedResource
  lockHolder,   \* as.allocatedResourceLock: 0 when free, else the holder
  tmp,          \* per call: the ledger value read inside plus/minusAllocated
  pc,           \* per call: position of the handler goroutine
  result,       \* per call: what executeCommand returned
  child,        \* per call: the child process
  stdinClosed,  \* per call: the child's stdin pipe has been closed
  stdin,        \* per call: the stdin pipe: bytes of the instructions written
                \* into it, bytes the child has read, and whether the
                \* child's end is still open
  outW, outR,   \* per call: stdout bytes written by the child / read by the pump
  outSlot,      \* per call: stdout bytes written before the pipe's current
                \* slot was begun
  errW, errR,   \* per call: stderr bytes written by the child / read by the pump
  pipeClosed,   \* per call: cmd.Wait has closed the parent's pipe ends
  outPc, outN,  \* per call: streamOutput position, length of the chunk it holds
  errPc, errN,  \* per call: streamError position, length of the chunk it holds
  pulsePc,      \* per call: streamPulse position
  ticks,        \* per call: keepalive ticks consumed so far
  waitPc,       \* per call: exit waiter position
  errChan,      \* per call: the buffered error channel
  stream,       \* per call: messages whose Send returned nil, in order
  cancelled,    \* per call: stream.Context() is done
  cancelLive,   \* per call: the context was cancelled while the supervisor
                \* waited in its select and the child was running
  nPlus, nMinus,\* per call: completed plusAllocated / minusAllocated
  upLock,       \* as.receiveFileResourceLock: 0 when free, else the holder
  up,           \* per SendFileResource call: the handler's position and locals
  upReq,        \* per SendFileResource call: what its client sends
  file,         \* the target file on disk
  del,          \* per Delete call: the handler's position and what it did
  shards,       \* the storage backend: names of the dataset shards it holds
  channels      \* the in-memory channel registry: names it holds

\* the state of the Execute calls
execVars == << env, ledger, lockHolder, tmp, pc, result, child, stdinClosed, stdin,
               outW, outR, outSlot, errW, errR, pipeClosed, outPc, outN, errPc,
               errN,
               pulsePc, ticks, waitPc, errChan, stream, cancelled, cancelLive,
               nPlus, nMinus >>

\* the state of the SendFileResource calls and of the file they write
upVars == << upLock, up, upReq, file >>

\* the state of the Delete calls and of the stores they clean
delVars == << del, shards, channels >>

rpcVars == << upVars, delVars >>

vars == << execVars, rpcVars >>

\* ----------------------------------------------------------------- helpers
Min(a, b) == IF a < b THEN a ELSE b

Zero == [cpu |-> 0, mem |-> 0, gpu |-> 0]

\* pb.ComputeResource.Plus / Minus: elementwise on (CPU, memory MB, GPU)
Plus(a, b) ==
  [cpu |-> a.cpu + b.cpu, mem |-> a.mem + b.mem, gpu |-> a.gpu + b.gpu]

Minus(a, b) ==
  [cpu |-> a.cpu - b.cpu, mem |-> a.mem - b.mem, gpu |-> a.gpu - b.gpu]

\* allocated := *request.GetResource()
RequestResource(c) ==
  IF c = 1 THEN [cpu |-> 2, mem |-> 1024, gpu |-> 0]
           ELSE [cpu |-> 3, mem |-> 2048, gpu |-> 1]

\* Messages on the stream. Every byte a child writes is identified by its
\* position in the pipe; a chunk is buffer[0:n] holding the bytes at
\* positions from+1 .. from+n.
OutMsg(from, n) == [kind |-> "out",   from |-> from, n |-> n]
ErrMsg(from, n) == [kind |-> "err",   from |-> from, n |-> n]
PulseMsg        == [kind |-> "pulse", from |-> 0,    n |-> 0]
StatsMsg        == [kind |-> "stats", from |-> 0,    n |-> 0]


\* variable groups for UNCHANGED
ledgerVars == << ledger, lockHolder, tmp, nPlus, nMinus >>
childVars  == << child, stdinClosed, outW, outSlot, errW >>
outVars    == << outR, outPc, outN >>
errVars    == << errR, errPc, errN >>
pulseVars  == << pulsePc, ticks >>
ctxVars    == << cancelled, cancelLive >>

\* the handler of call c has returned to the RPC layer
Returned(c) == pc[c] = "done"

\* stream.Send, the transport: a stream is live until its context is done
\* (the caller cancelled, the deadline passed, the connection broke) or its
\* handler has returned.
StreamLive(c) == ~cancelled[c] /\ ~Returned(c)

\* stream.Send is entered
SendEnter(c) == IF StreamLive(c) THEN "sendLive" ELSE "sendDead"

\* stream.Send returns: nil only if the stream was live when Send was
\* entered, an error only if the stream is no longer live
SendOutcome(c, entered, ok) ==
  /\ ok => entered = "sendLive"
  /\ ~ok => ~StreamLive(c)

\* the child process exists: it runs, or it is blocked in a write to a full
\* stdout pipe
ChildAlive(c) == child[c] \in {"running", "blocked"}

\* the child's end of the stdout/stderr pipes is closed once it is gone
ChildGone(c) == child[c] \in {"exited0", "exited1", "killed"}

\* ------------------------------------------------------------------- Init
\* the SendFileResource and Delete calls of the model
Uploads == {1, 2}
Deletes == {1, 2}

\* no SendFileResource call has arrived, the target file does not exist
UploadIdle ==
  /\ upLock = 0
  /\ up = [u \in Uploads |-> [pc |-> "absent", got |-> 0, acks |-> << >>,
                               off |-> 0, touched |-> FALSE, res |-> "none"]]
  /\ upReq = [u \in Uploads |-> [hash |-> 0, chunks |-> << >>]]
  /\ file = [exists |-> FALSE, data |-> << >>]

\* no Delete call has arrived, the stores are empty
DeleteIdle ==
  /\ del = [d \in Deletes |-> [pc |-> "absent", name |-> "s1", log |-> << >>,
                                res |-> "none"]]
  /\ shards = {}
  /\ channels = {}

\* no Execute call has arrived
ExecInit ==
  /\ ledger = Zero
  /\ lockHolder = 0
  /\ tmp = [c \in Calls |-> Zero]
  /\ pc = [c \in Calls |-> IF c \in env.calls THEN "plusLock" ELSE "absent"]
  /\ result = [c \in Calls |-> "none"]
  /\ child = [c \in Calls |-> "none"]
  /\ stdinClosed = [c \in Calls |-> FALSE]
  /\ stdin = [c \in Calls |-> [w |-> 0, r |-> 0, open |-> TRUE]]
  /\ outW = [c \in Calls |-> 0]
  /\ outSlot = [c \in Calls |-> 0]
  /\ outR = [c \in Calls |-> 0]
  /\ errW = [c \in Calls |-> 0]
  /\ errR = [c \in Calls |-> 0]
  /\ pipeClosed = [c \in Calls |-> FALSE]
  /\ outPc = [c \in Calls |-> "none"]
  /\ outN = [c \in Calls |-> 0]
  /\ errPc = [c \in Calls |-> "none"]
  /\ errN = [c \in Calls |-> 0]
  /\ pulsePc = [c \in Calls |-> "none"]
  /\ ticks = [c \in Calls |-> 0]
  /\ waitPc = [c \in Calls |-> "none"]
  /\ errChan = [c \in Calls |-> << >>]
  /\ stream = [c \in Calls |-> << >>]
  /\ cancelled = [c \in Calls |-> FALSE]
  /\ cancelLive = [c \in Calls |-> FALSE]
  /\ nPlus = [c \in Calls |-> 0]
  /\ nMinus = [c \in Calls |-> 0]

Init ==
  /\ env \in Scenarios
  /\ ExecInit
  /\ UploadIdle
  /\ DeleteIdle

\* ------------------------------------------------- the allocation ledger
\* variant: Lock() does not exclude anybody
LockFreeAlways == TRUE

\* as.allocatedResourceLock.Lock() succeeds only while nobody holds it
LockFree == lockHolder = 0

\* Execute: as.plusAllocated(allocated), first the Lock()
PlusLock(c) ==
  /\ pc[c] = "plusLock"
  /\ LockFree
  /\ lockHolder' = c
  /\ pc' = [pc EXCEPT ![c] = "plusRead"]
  /\ UNCHANGED << rpcVars, env, stdin, ledger, tmp, nPlus, nMinus, result, childVars, outVars,
                  errVars, pulseVars, ctxVars, pipeClosed, waitPc, errChan,
                  stream >>

\* plusAllocated: the read of *as.allocatedResource
PlusRead(c) ==
  /\ pc[c] = "plusRead"
  /\ tmp' = [tmp EXCEPT ![c] = ledger]
  /\ pc' = [pc EXCEPT ![c] = "plusWrite"]
  /\ UNCHANGED << rpcVars, env, stdin, ledger, lockHolder, nPlus, nMinus, result, childVars,
                  outVars, errVars, pulseVars, ctxVars, pipeClosed, waitPc,
                  errChan, stream >>

\* plusAllocated: the write of the sum and the deferred Unlock()
PlusWrite(c) ==
  /\ pc[c] = "plusWrite"
  /\ ledger' = Plus(tmp[c], RequestResource(c))
  /\ lockHolder' = 0
  /\ nPlus' = [nPlus EXCEPT ![c] = @ + 1]
  /\ pc' = [pc EXCEPT ![c] = "spawn"]
  /\ UNCHANGED << rpcVars, env, stdin, tmp, nMinus, result, childVars, outVars, errVars,
                  pulseVars, ctxVars, pipeClosed, waitPc, errChan, stream >>

\* variant: the release is not deferred, executeCommand's return ends the call
ExecuteDeferSkipped == "done"

\* Execute: defer as.minusAllocated(allocated) runs when executeCommand
\* returns, whatever it returns
ExecuteDefer == "minusLock"

\* minusAllocated, first the Lock()
MinusLock(c) ==
  /\ pc[c] = "minusLock"
  /\ LockFree
  /\ lockHolder' = c
  /\ pc' = [pc EXCEPT ![c] = "minusRead"]
  /\ UNCHANGED << rpcVars, env, stdin, ledger, tmp, nPlus, nMinus, result, childVars, outVars,
                  errVars, pulseVars, ctxVars, pipeClosed, waitPc, errChan,
                  stream >>

\* minusAllocated: the read of *as.allocatedResource
MinusRead(c) ==
  /\ pc[c] = "minusRead"
  /\ tmp' = [tmp EXCEPT ![c] = ledger]
  /\ pc' = [pc EXCEPT ![c] = "minusWrite"]
  /\ UNCHANGED << rpcVars, env, stdin, ledger, lockHolder, nPlus, nMinus, result, childVars,
                  outVars, errVars, pulseVars, ctxVars, pipeClosed, waitPc,
                  errChan, stream >>

\* minusAllocated: the write of the difference and the deferred Unlock();
\* Execute then returns
MinusWrite(c) ==
  /\ pc[c] = "minusWrite"
  /\ ledger' = Minus(tmp[c], RequestResource(c))
  /\ lockHolder' = 0
  /\ nMinus' = [nMinus EXCEPT ![c] = @ + 1]
  /\ pc' = [pc EXCEPT ![c] = "done"]
  /\ UNCHANGED << rpcVars, env, stdin, tmp, nPlus, result, childVars, outVars, errVars,
                  pulseVars, ctxVars, pipeClosed, waitPc, errChan, stream >>


\* ------------------------------------------- executeCommand, the supervisor
\* variant: the go statements precede the check of command.Start()'s error
SpawnGoBeforeStart(c) ==
  /\ pc[c] = "spawn"
  /\ \E ok \in BOOLEAN :
       /\ ok => c \in env.spawn
       /\ outPc' = [outPc EXCEPT ![c] = "read"]
       /\ errPc' = [errPc EXCEPT ![c] = "read"]
       /\ pulsePc' = [pulsePc EXCEPT ![c] = "select"]
       /\ IF ok
          THEN /\ child' = [child EXCEPT ![c] = "running"]
               /\ pc' = [pc EXCEPT ![c] = "marshal"]
               /\ UNCHANGED result
          ELSE /\ result' = [result EXCEPT ![c] = "error"]
               /\ pc' = [pc EXCEPT ![c] = "stop"]
               /\ UNCHANGED child
  /\ UNCHANGED << rpcVars, env, stdin, ledgerVars, stdinClosed, outW, outSlot, errW, outR,
                  outN, errR, errN, ticks, ctxVars, pipeClosed, waitPc, errChan,
                  stream >>

\* StdinPipe, StdoutPipe, StderrPipe and command.Start(): any of them may
\* fail and the function returns; otherwise the child runs and the two pumps
\* and the keepalive are started (three go statements, one deferred stop)
Spawn(c) ==
  /\ pc[c] = "spawn"
  /\ \E ok \in BOOLEAN :
       /\ ok => c \in env.spawn
       /\ IF ok
          THEN /\ child' = [child EXCEPT ![c] = "running"]
               /\ outPc' = [outPc EXCEPT ![c] = "read"]
               /\ errPc' = [errPc EXCEPT ![c] = "read"]
               /\ pulsePc' = [pulsePc EXCEPT ![c] = "select"]
               /\ pc' = [pc EXCEPT ![c] = "marshal"]
               /\ UNCHANGED result
          ELSE /\ result' = [result EXCEPT ![c] = "error"]
               /\ pc' = [pc EXCEPT ![c] = ExecuteDefer]
               /\ UNCHANGED << child, outPc, errPc, pulsePc >>
  /\ UNCHANGED << rpcVars, env, stdin, ledgerVars, stdinClosed, outW, outSlot, errW, outR,
                  outN, errR, errN, ticks, ctxVars, pipeClosed, waitPc, errChan,
                  stream >>

\* proto.Marshal(startRequest.GetInstructions()); on error return err, which
\* runs the deferred stopChan send
Marshal(c) ==
  /\ pc[c] = "marshal"
  /\ \E ok \in BOOLEAN :
       IF ok
       THEN /\ pc' = [pc EXCEPT ![c] = "write"]
            /\ UNCHANGED result
       ELSE /\ result' = [result EXCEPT ![c] = "error"]
            /\ pc' = [pc EXCEPT ![c] = "stop"]
  /\ UNCHANGED << rpcVars, env, stdin, ledgerVars, childVars, outVars, errVars, pulseVars,
                  ctxVars, pipeClosed, waitPc, errChan, stream >>

\* bytes of msgMessageBytes that are not yet in the stdin pipe
StdinLeft(c) == env.msg - stdin[c].w

\* room in the stdin pipe of call c
StdinRoom(c) == PipeCap - (stdin[c].w - stdin[c].r)

\* nobody holds the read end of the stdin pipe any more
StdinReaderGone(c) == ChildGone(c) \/ ~stdin[c].open

\* stdin.Write(msgMessageBytes): a write of no bytes returns nil whatever
\* the child does; otherwise the write fails with a broken pipe when the
\* read end is gone (on error return err), puts into the pipe what fits,
\* and blocks while bytes are left and the pipe is full
WriteStdin(c) ==
  /\ pc[c] = "write"
  /\ IF StdinLeft(c) = 0
     THEN /\ pc' = [pc EXCEPT ![c] = "close"]
          /\ UNCHANGED << result, stdin >>
     ELSE IF StdinReaderGone(c)
     THEN /\ result' = [result EXCEPT ![c] = "error"]
          /\ pc' = [pc EXCEPT ![c] = "stop"]
          /\ UNCHANGED stdin
     ELSE /\ StdinRoom(c) > 0
          /\ stdin' = [stdin EXCEPT ![c].w = @ + Min(StdinLeft(c), StdinRoom(c))]
          /\ pc' = [pc EXCEPT ![c] = IF StdinLeft(c) <= StdinRoom(c)
                                     THEN "close" ELSE "write"]
          /\ UNCHANGED result
  /\ UNCHANGED << rpcVars, env, ledgerVars, childVars, outVars, errVars, pulseVars,
                  ctxVars, pipeClosed, waitPc, errChan, stream >>

\* stdin.Close(); on error return err, otherwise start the exit waiter and
\* reach the select
CloseStdin(c) ==
  /\ pc[c] = "close"
  /\ stdinClosed' = [stdinClosed EXCEPT ![c] = TRUE]
  /\ \E ok \in BOOLEAN :
       IF ok
       THEN /\ waitPc' = [waitPc EXCEPT ![c] = "waiting"]
            /\ pc' = [pc EXCEPT ![c] = "select"]
            /\ UNCHANGED result
       ELSE /\ result' = [result EXCEPT ![c] = "error"]
            /\ pc' = [pc EXCEPT ![c] = "stop"]
            /\ UNCHANGED waitPc
  /\ UNCHANGED << rpcVars, env, stdin, ledgerVars, child, outW, outSlot, errW, outVars,
                  errVars, pulseVars, ctxVars, pipeClosed, errChan, stream >>

\* select, case err = <-errChan: a non-nil error is returned, a nil leads
\* into sendExitStats, whose stream.Send is entered here (cmd.ProcessState
\* is set, Wait has returned)
SupRecv(c) ==
  /\ pc[c] = "select"
  /\ errChan[c] # << >>
  /\ errChan' = [errChan EXCEPT ![c] = Tail(@)]
  /\ IF Head(errChan[c]) = "nil"
     THEN /\ pc' = [pc EXCEPT ![c] = IF StreamLive(c) THEN "statsLive"
                                                      ELSE "statsDead"]
          /\ UNCHANGED result
     ELSE /\ result' = [result EXCEPT ![c] = "error"]
          /\ pc' = [pc EXCEPT ![c] = "stop"]
  /\ UNCHANGED << rpcVars, env, stdin, ledgerVars, childVars, outVars, errVars, pulseVars,
                  ctxVars, pipeClosed, waitPc, stream >>

\* select, case <-ctx.Done(): Process.Kill(), Process.Release(),
\* return ctx.Err()
SupCancel(c) ==
  /\ pc[c] = "select"
  /\ cancelled[c]
  /\ child' = [child EXCEPT ![c] = IF ChildAlive(c) THEN "killed" ELSE @]
  /\ result' = [result EXCEPT ![c] = "cancelled"]
  /\ pc' = [pc EXCEPT ![c] = "stop"]
  /\ UNCHANGED << rpcVars, env, stdin, ledgerVars, stdinClosed, outW, outSlot, errW,
                  outVars, errVars, pulseVars, ctxVars, pipeClosed, waitPc,
                  errChan, stream >>

\* sendExitStats: stream.Send returns; nil makes executeCommand return nil,
\* an error is returned as the call's error
StatsSendEnd(c) ==
  /\ pc[c] \in {"statsLive", "statsDead"}
  /\ \E ok \in BOOLEAN :
       /\ SendOutcome(c, IF pc[c] = "statsLive" THEN "sendLive" ELSE "sendDead", ok)
       /\ IF ok
          THEN /\ stream' = [stream EXCEPT ![c] = Append(@, StatsMsg)]
               /\ result' = [result EXCEPT ![c] = "ok"]
          ELSE /\ result' = [result EXCEPT ![c] = "sendError"]
               /\ UNCHANGED stream
  /\ pc' = [pc EXCEPT ![c] = "stop"]
  /\ UNCHANGED << rpcVars, env, stdin, ledgerVars, childVars, outVars, errVars, pulseVars,
                  ctxVars, pipeClosed, waitPc, errChan >>

\* defer func() { stopChan <- true }(): stopChan is unbuffered, the send
\* completes only when streamPulse receives it in its select and returns
SupStop(c) ==
  /\ pc[c] = "stop"
  /\ pulsePc[c] = "select"
  /\ pulsePc' = [pulsePc EXCEPT ![c] = "done"]
  /\ pc' = [pc EXCEPT ![c] = ExecuteDefer]
  /\ UNCHANGED << rpcVars, env, stdin, ledgerVars, result, childVars, outVars, errVars, ticks,
                  ctxVars, pipeClosed, waitPc, errChan, stream >>

\* ------------------------------------------------------ the keepalive pulse
\* streamPulse, case <-tickChan: a minute has passed; stream.Send is entered
PulseTick(c) ==
  /\ pulsePc[c] = "select"
  /\ ticks[c] < env.ticks
  /\ ticks' = [ticks EXCEPT ![c] = @ + 1]
  /\ pulsePc' = [pulsePc EXCEPT ![c] = SendEnter(c)]
  /\ UNCHANGED << rpcVars, env, stdin, ledgerVars, pc, result, childVars, outVars, errVars,
                  ctxVars, pipeClosed, waitPc, errChan, stream >>

\* streamPulse: stream.Send returns; on error the function returns the
\* error to nobody (it was started with go) and errChan is left alone
PulseSendEnd(c) ==
  /\ pulsePc[c] \in {"sendLive", "sendDead"}
  /\ \E ok \in BOOLEAN :
       /\ SendOutcome(c, pulsePc[c], ok)
       /\ IF ok
          THEN /\ stream' = [stream EXCEPT ![c] = Append(@, PulseMsg)]
               /\ pulsePc' = [pulsePc EXCEPT ![c] = "select"]
               /\ UNCHANGED errChan
          ELSE /\ pulsePc' = [pulsePc EXCEPT ![c] = "dead"]
               /\ UNCHANGED << stream, errChan >>
  /\ UNCHANGED << rpcVars, env, stdin, ledgerVars, pc, result, childVars, outVars, errVars,
                  ticks, ctxVars, pipeClosed, waitPc >>


\* ------------------------------------------------------------ the two pumps
\* variant: the read is not limited by the buffer
ChunkLenUnbounded(avail) == avail

\* n of reader.Read(buffer): a pipe read returns what is there, at most
\* len(buffer) bytes, and at least one byte (the n == 0 case never arises)
ChunkLen(avail) == Min(avail, BufSize)

\* variant: the pump goes on reading after it reported a failed Send
AfterSendErrorKeepsReading == "read"

\* errChan <- fmt.Errorf("Failed to send ..."); return: the pump is over
AfterSendError == "failed"

\* &pb.ExecutionResponse{Output: buffer[0:n]}
OutChunk(c) == OutMsg(outR[c] - outN[c], outN[c])

\* &pb.ExecutionResponse{Error: buffer[0:n]}
ErrChunk(c) == ErrMsg(errR[c] - errN[c], errN[c])

\* streamOutput: reader.Read(buffer) returns. A pipe end closed by cmd.Wait
\* gives an error, which goes to errChan and ends the pump; data gives a
\* chunk and stream.Send is entered; an empty pipe whose writer is gone
\* gives io.EOF; otherwise the read blocks.
OutRead(c) ==
  /\ outPc[c] = "read"
  /\ \/ /\ pipeClosed[c]
        /\ Len(errChan[c]) < ErrChanCap
        /\ errChan' = [errChan EXCEPT ![c] = Append(@, "stdout")]
        /\ outPc' = [outPc EXCEPT ![c] = "readErr"]
        /\ UNCHANGED << outR, outN >>
     \/ /\ ~pipeClosed[c]
        /\ outW[c] > outR[c]
        /\ outN' = [outN EXCEPT ![c] = ChunkLen(outW[c] - outR[c])]
        /\ outR' = [outR EXCEPT ![c] = @ + ChunkLen(outW[c] - outR[c])]
        /\ outPc' = [outPc EXCEPT ![c] = SendEnter(c)]
        /\ UNCHANGED errChan
     \/ /\ ~pipeClosed[c]
        /\ outW[c] = outR[c]
        /\ ChildGone(c)
        /\ outPc' = [outPc EXCEPT ![c] = "done"]
        /\ UNCHANGED << outR, outN, errChan >>
  /\ UNCHANGED << rpcVars, env, stdin, ledgerVars, pc, result, childVars, errVars, pulseVars,
                  ctxVars, pipeClosed, waitPc, stream >>

\* streamOutput: stream.Send returns; nil loops back to the read, an error
\* goes to errChan and the pump returns
OutSendEnd(c) ==
  /\ outPc[c] \in {"sendLive", "sendDead"}
  /\ \E ok \in BOOLEAN :
       /\ SendOutcome(c, outPc[c], ok)
       /\ IF ok
          THEN /\ stream' = [stream EXCEPT ![c] = Append(@, OutChunk(c))]
               /\ outPc' = [outPc EXCEPT ![c] = "read"]
               /\ UNCHANGED << errChan >>
          ELSE /\ Len(errChan[c]) < ErrChanCap
               /\ errChan' = [errChan EXCEPT ![c] = Append(@, "stdout")]
               /\ outPc' = [outPc EXCEPT ![c] = AfterSendError]
               /\ UNCHANGED stream
  /\ UNCHANGED << rpcVars, env, stdin, ledgerVars, pc, result, childVars, outR, outN, errVars,
                  pulseVars, ctxVars, pipeClosed, waitPc >>

\* streamError: tee.Read(buffer) has read from the pipe, as in streamOutput,
\* but the bytes it got are next written to the agent's own stderr
ErrRead(c) ==
  /\ errPc[c] = "read"
  /\ \/ /\ pipeClosed[c]
        /\ Len(errChan[c]) < ErrChanCap
        /\ errChan' = [errChan EXCEPT ![c] = Append(@, "stderr")]
        /\ errPc' = [errPc EXCEPT ![c] = "readErr"]
        /\ UNCHANGED << errR, errN >>
     \/ /\ ~pipeClosed[c]
        /\ errW[c] > errR[c]
        /\ errN' = [errN EXCEPT ![c] = ChunkLen(errW[c] - errR[c])]
        /\ errR' = [errR EXCEPT ![c] = @ + ChunkLen(errW[c] - errR[c])]
        /\ errPc' = [errPc EXCEPT ![c] = "tee"]
        /\ UNCHANGED errChan
     \/ /\ ~pipeClosed[c]
        /\ errW[c] = errR[c]
        /\ ChildGone(c)
        /\ errPc' = [errPc EXCEPT ![c] = "done"]
        /\ UNCHANGED << errR, errN, errChan >>
  /\ UNCHANGED << rpcVars, env, stdin, ledgerVars, pc, result, childVars, outVars, pulseVars,
                  ctxVars, pipeClosed, waitPc, stream >>

\* streamError: the write of io.TeeReader to os.Stderr returns; then
\* stream.Send is entered, or, if the write failed, tee.Read returns its
\* error, which goes to errChan and ends the pump with the chunk unsent
ErrTee(c) ==
  /\ errPc[c] = "tee"
  /\ \E ok \in BOOLEAN :
       IF ok
       THEN /\ errPc' = [errPc EXCEPT ![c] = SendEnter(c)]
            /\ UNCHANGED errChan
       ELSE /\ Len(errChan[c]) < ErrChanCap
            /\ errChan' = [errChan EXCEPT ![c] = Append(@, "stderr")]
            /\ errPc' = [errPc EXCEPT ![c] = "readErr"]
  /\ UNCHANGED << rpcVars, env, stdin, ledgerVars, pc, result, childVars, outVars, errR, errN,
                  pulseVars, ctxVars, pipeClosed, waitPc, stream >>

\* streamError: stream.Send returns
ErrSendEnd(c) ==
  /\ errPc[c] \in {"sendLive", "sendDead"}
  /\ \E ok \in BOOLEAN :
       /\ SendOutcome(c, errPc[c], ok)
       /\ IF ok
          THEN /\ stream' = [stream EXCEPT ![c] = Append(@, ErrChunk(c))]
               /\ errPc' = [errPc EXCEPT ![c] = "read"]
               /\ UNCHANGED << errChan >>
          ELSE /\ Len(errChan[c]) < ErrChanCap
               /\ errChan' = [errChan EXCEPT ![c] = Append(@, "stderr")]
               /\ errPc' = [errPc EXCEPT ![c] = AfterSendError]
               /\ UNCHANGED stream
  /\ UNCHANGED << rpcVars, env, stdin, ledgerVars, pc, result, childVars, outVars, errR, errN,
                  pulseVars, ctxVars, pipeClosed, waitPc >>

\* ---------------------------------------------------------- the exit waiter
\* command.Process.Release() has run: it is the last step of the
\* cancellation branch, which alone returns ctx.Err()
Released(c) == result[c] = "cancelled"

\* command.Wait() returns once the child is gone, or at once with an error
\* when it is called on a process handle that was already released; it
\* closes the parent's ends of the stdout and stderr pipes before it
\* returns. A waiter that returns after the release may have entered Wait
\* before it or after it.
WaitReturn(c) ==
  /\ waitPc[c] = "waiting"
  /\ ChildGone(c) \/ Released(c)
  /\ pipeClosed' = [pipeClosed EXCEPT ![c] = TRUE]
  /\ \E w \in {"reaped"} \cup (IF Released(c) THEN {"released"} ELSE {}) :
       waitPc' = [waitPc EXCEPT ![c] = w]
  /\ UNCHANGED << rpcVars, env, stdin, ledgerVars, pc, result, childVars, outVars, errVars,
                  pulseVars, ctxVars, errChan, stream >>

\* variant: the exit status is dropped
WaitErrAlwaysNil(c) == "nil"

\* waitErr of command.Wait(): nil exactly when the process was waited for
\* and the child exited with status 0
WaitErr(c) ==
  IF waitPc[c] = "reaped" /\ child[c] = "exited0" THEN "nil" ELSE "wait"

\* errChan <- waitErr
WaiterReport(c) ==
  /\ waitPc[c] \in {"reaped", "released"}
  /\ Len(errChan[c]) < ErrChanCap
  /\ errChan' = [errChan EXCEPT ![c] = Append(@, WaitErr(c))]
  /\ waitPc' = [waitPc EXCEPT ![c] = "done"]
  /\ UNCHANGED << rpcVars, env, stdin, ledgerVars, pc, result, childVars, outVars, errVars,
                  pulseVars, ctxVars, pipeClosed, stream >>

\* ------------------------------------------------- the child and the caller
\* The stdout pipe of call c has room for another block of the child. The
\* pipe is one slot of PipeCap bytes: a block is packed behind the blocks
\* already in the slot while the slot has space left after them, space
\* freed by reads is not reused, and a new slot is begun only when the pipe
\* has been drained.
PipeHasRoom(c) ==
  \/ outW[c] = outR[c]
  \/ outW[c] - outSlot[c] + BufSize + 1 <= PipeCap

\* where the slot begins into which the next block of the child goes
SlotOfWrite(c) == IF outW[c] = outR[c] THEN outW[c] ELSE outSlot[c]

\* the child writes another block to its stdout, one byte more than the
\* pump's buffer holds; the write completes if the pipe has room for the
\* block and blocks the child otherwise
ChildWriteOut(c) ==
  /\ child[c] = "running"
  /\ outW[c] + BufSize + 1 <= env.out
  /\ IF PipeHasRoom(c)
     THEN /\ outW' = [outW EXCEPT ![c] = @ + BufSize + 1]
          /\ outSlot' = [outSlot EXCEPT ![c] = SlotOfWrite(c)]
          /\ UNCHANGED child
     ELSE /\ child' = [child EXCEPT ![c] = "blocked"]
          /\ UNCHANGED << outW, outSlot >>
  /\ UNCHANGED << rpcVars, env, stdin, ledgerVars, pc, result, stdinClosed, errW,
                  outVars, errVars, pulseVars, ctxVars, pipeClosed, waitPc,
                  errChan, stream >>

\* the blocked write of the child completes once the pump has made room
ChildResume(c) ==
  /\ child[c] = "blocked"
  /\ PipeHasRoom(c)
  /\ outW' = [outW EXCEPT ![c] = @ + BufSize + 1]
  /\ outSlot' = [outSlot EXCEPT ![c] = SlotOfWrite(c)]
  /\ child' = [child EXCEPT ![c] = "running"]
  /\ UNCHANGED << rpcVars, env, stdin, ledgerVars, pc, result, stdinClosed, errW,
                  outVars, errVars, pulseVars, ctxVars, pipeClosed, waitPc,
                  errChan, stream >>

\* the child writes another byte to its stderr
ChildWriteErr(c) ==
  /\ child[c] = "running"
  /\ errW[c] + 1 <= env.err
  /\ errW' = [errW EXCEPT ![c] = @ + 1]
  /\ UNCHANGED << rpcVars, env, stdin, ledgerVars, pc, result, child, stdinClosed, outW,
                  outSlot, outVars, errVars, pulseVars, ctxVars, pipeClosed,
                  waitPc, errChan, stream >>

\* the child reads what is in its stdin pipe
ChildReadStdin(c) ==
  /\ child[c] = "running"
  /\ env.stdin = "used"
  /\ stdin[c].open
  /\ stdin[c].w > stdin[c].r
  /\ stdin' = [stdin EXCEPT ![c].r = stdin[c].w]
  /\ UNCHANGED << rpcVars, env, ledgerVars, pc, result, childVars, outVars, errVars,
                  pulseVars, ctxVars, pipeClosed, waitPc, errChan, stream >>

\* the child closes its stdin
ChildCloseStdin(c) ==
  /\ child[c] = "running"
  /\ env.stdin = "used"
  /\ stdin[c].open
  /\ stdin' = [stdin EXCEPT ![c].open = FALSE]
  /\ UNCHANGED << rpcVars, env, ledgerVars, pc, result, childVars, outVars, errVars,
                  pulseVars, ctxVars, pipeClosed, waitPc, errChan, stream >>

\* the child exits, with status zero or not
ChildExit(c) ==
  /\ child[c] = "running"
  /\ \E st \in {"exited0", "exited1"} : child' = [child EXCEPT ![c] = st]
  /\ UNCHANGED << rpcVars, env, stdin, ledgerVars, pc, result, stdinClosed, outW, outSlot,
                  errW, outVars, errVars, pulseVars, ctxVars, pipeClosed, waitPc,
                  errChan, stream >>

\* the caller cancels the RPC: stream.Context() becomes done
Cancel(c) ==
  /\ pc[c] \notin {"absent", "done"}
  /\ ~cancelled[c]
  /\ cancelled' = [cancelled EXCEPT ![c] = TRUE]
  /\ cancelLive' = [cancelLive EXCEPT ![c] =
                      pc[c] = "select" /\ ChildAlive(c)]
  /\ UNCHANGED << rpcVars, env, stdin, ledgerVars, pc, result, childVars, outVars, errVars,
                  pulseVars, pipeClosed, waitPc, errChan, stream >>

\* ------------------------------------------------------- the specifications
\* the goroutines of call c
Handler(c) ==
  \/ PlusLock(c) \/ PlusRead(c) \/ PlusWrite(c)
  \/ Spawn(c) \/ Marshal(c) \/ WriteStdin(c) \/ CloseStdin(c)
  \/ SupRecv(c) \/ SupCancel(c) \/ StatsSendEnd(c) \/ SupStop(c)
  \/ MinusLock(c) \/ MinusRead(c) \/ MinusWrite(c)

OutPump(c) == OutRead(c) \/ OutSendEnd(c)

ErrPump(c) == ErrRead(c) \/ ErrTee(c) \/ ErrSendEnd(c)

Waiter(c) == WaitReturn(c) \/ WaiterReport(c)

Next ==
  \/ \E c \in Calls : PlusLock(c)
  \/ \E c \in Calls : PlusRead(c)
  \/ \E c \in Calls : PlusWrite(c)
  \/ \E c \in Calls : Spawn(c)
  \/ \E c \in Calls : Marshal(c)
  \/ \E c \in Calls : WriteStdin(c)
  \/ \E c \in Calls : CloseStdin(c)
  \/ \E c \in Calls : SupRecv(c)
  \/ \E c \in Calls : SupCancel(c)
  \/ \E c \in Calls : StatsSendEnd(c)
  \/ \E c \in Calls : SupStop(c)
  \/ \E c \in Calls : MinusLock(c)
  \/ \E c \in Calls : MinusRead(c)
  \/ \E c \in Calls : MinusWrite(c)
  \/ \E c \in Calls : PulseTick(c)
  \/ \E c \in Calls : PulseSendEnd(c)
  \/ \E c \in Calls : OutRead(c)
  \/ \E c \in Calls : OutSendEnd(c)
  \/ \E c \in Calls : ErrRead(c)
  \/ \E c \in Calls : ErrTee(c)
  \/ \E c \in Calls : ErrSendEnd(c)
  \/ \E c \in Calls : WaitReturn(c)
  \/ \E c \in Calls : WaiterReport(c)
  \/ \E c \in Calls : ChildWriteOut(c)
  \/ \E c \in Calls : ChildResume(c)
  \/ \E c \in Calls : ChildWriteErr(c)
  \/ \E c \in Calls : ChildReadStdin(c)
  \/ \E c \in Calls : ChildCloseStdin(c)
  \/ \E c \in Calls : ChildExit(c)
  \/ \E c \in Calls : Cancel(c)

Spec == Init /\ [][Next]_vars

\* The Go scheduler runs every goroutine that can take a step; the child,
\* the caller and the minute ticks are under no obligation.
Fairness ==
  \A c \in Calls :
    /\ WF_vars(Handler(c))
    /\ WF_vars(OutPump(c))
    /\ WF_vars(ErrPump(c))
    /\ WF_vars(PulseSendEnd(c))
    /\ WF_vars(Waiter(c))

FairSpec == Spec /\ Fairness

\* A child that is not blocked in a write runs to its end, and a blocked
\* write completes once the pipe has room.
ChildFairness ==
  \A c \in Calls : WF_vars(ChildExit(c)) /\ WF_vars(ChildResume(c))

FairChildSpec == FairSpec /\ ChildFairness


\* ------------------------------------------------------- SendFileResource
\* what a client may send after the metadata message: content chunks
ChunkLists ==
  { << >>, << <<1>> >>, << <<0, 1>> >>, << <<0>>, <<1>> >>, << <<1>>, <<1>> >> }

\* resource.GenerateFileHash: a checksum of the file's bytes
RECURSIVE HashFrom(_, _)
HashFrom(h, data) ==
  IF data = << >> THEN h
  ELSE HashFrom((3 * h + Head(data) + 1) % 5, Tail(data))

HashOf(data) == HashFrom(0, data)

\* the hashes a client may claim in its metadata message
ReqHashes == { HashOf(<<1>>), HashOf(<<0, 1>>) }

RECURSIVE Concat(_)
Concat(chs) == IF chs = << >> THEN << >> ELSE Head(chs) \o Concat(Tail(chs))

\* f.Write(content) on a handle at offset off: the bytes go to positions
\* off+1 .. off+Len(content), a gap before them reads as zeros
WriteAt(data, off, content) ==
  LET end == IF off + Len(content) > Len(data) THEN off + Len(content)
                                              ELSE Len(data)
  IN [i \in 1..end |->
        IF i > off /\ i <= off + Len(content) THEN content[i - off]
        ELSE IF i <= Len(data) THEN data[i] ELSE 0]

\* variant: Lock() does not exclude anybody
UpLockFreeAlways == TRUE

\* as.receiveFileResourceLock.Lock() succeeds only while nobody holds it
UpLockFree == upLock = 0

\* SendFileResource: as.receiveFileResourceLock.Lock()
UpLock(u) ==
  /\ up[u].pc = "lock"
  /\ UpLockFree
  /\ upLock' = u
  /\ up' = [up EXCEPT ![u].pc = "recv1"]
  /\ UNCHANGED << execVars, delVars, upReq, file >>

\* request, err := stream.Recv(): the metadata message, or an error that is
\* returned
UpRecvMeta(u) ==
  /\ up[u].pc = "recv1"
  /\ \E ok \in BOOLEAN :
       up' = [up EXCEPT ![u].pc = IF ok THEN "ack" ELSE "ret",
                        ![u].res = IF ok THEN @ ELSE "error"]
  /\ UNCHANGED << execVars, delVars, upLock, upReq, file >>

\* hasSameHash: GenerateFileHash succeeded (the file exists) and its hash is
\* the requested one
HasSameHash(u) == file.exists /\ HashOf(file.data) = upReq[u].hash

\* variant: the handler goes on to write although the hash is the same
AfterAckAlwaysOpen(same) == "open"

\* after the acknowledgement: if hasSameHash { return nil }
AfterAck(same) == IF same THEN "ret" ELSE "open"

\* the hash comparison and stream.Send(&pb.FileResourceResponse{hasSameHash,
\* true}); a failed Send is returned
UpAck(u) ==
  /\ up[u].pc = "ack"
  /\ \E ok \in BOOLEAN :
       up' = [up EXCEPT
                ![u].acks = IF ok THEN Append(@, HasSameHash(u)) ELSE @,
                ![u].pc = IF ok THEN AfterAck(HasSameHash(u)) ELSE "ret",
                ![u].res = IF ~ok THEN "error"
                           ELSE IF HasSameHash(u) THEN "ok" ELSE @]
  /\ UNCHANGED << execVars, delVars, upLock, upReq, file >>

\* os.OpenFile(toFile, O_WRONLY|O_CREATE|O_TRUNC, 0755); an error is returned
UpOpen(u) ==
  /\ up[u].pc = "open"
  /\ \E ok \in BOOLEAN :
       IF ok
       THEN /\ file' = [exists |-> TRUE, data |-> << >>]
            /\ up' = [up EXCEPT ![u].pc = "recv", ![u].off = 0,
                                ![u].touched = TRUE]
       ELSE /\ up' = [up EXCEPT ![u].pc = "ret", ![u].res = "error"]
            /\ UNCHANGED file
  /\ UNCHANGED << execVars, delVars, upLock, upReq >>

\* the loop's stream.Recv(): the next content chunk, io.EOF when the client
\* has sent them all (return nil), or an error that is returned
UpRecv(u) ==
  /\ up[u].pc = "recv"
  /\ \E ok \in BOOLEAN :
       up' = [up EXCEPT
                ![u].got = IF ok /\ @ < Len(upReq[u].chunks) THEN @ + 1 ELSE @,
                ![u].pc = IF ok /\ up[u].got < Len(upReq[u].chunks)
                          THEN "write" ELSE "ret",
                ![u].res = IF ~ok THEN "error"
                           ELSE IF up[u].got < Len(upReq[u].chunks) THEN @
                           ELSE "ok"]
  /\ UNCHANGED << execVars, delVars, upLock, upReq, file >>

\* f.Write(request.GetContent()): the whole chunk is written, or the
\* write fails after some proper prefix of the chunk has reached the file
\* and the error is returned
UpWrite(u) ==
  /\ up[u].pc = "write"
  /\ LET chunk == upReq[u].chunks[up[u].got]
     IN \E k \in 0..Len(chunk) :
          /\ file' = [file EXCEPT !.data =
                        IF k = 0 THEN @
                        ELSE WriteAt(@, up[u].off, SubSeq(chunk, 1, k))]
          /\ IF k = Len(chunk)
             THEN up' = [up EXCEPT ![u].pc = "recv", ![u].off = @ + k]
             ELSE up' = [up EXCEPT ![u].pc = "ret", ![u].res = "error"]
  /\ UNCHANGED << execVars, delVars, upLock, upReq >>

\* the return: the deferred f.Close() and receiveFileResourceLock.Unlock()
UpReturn(u) ==
  /\ up[u].pc = "ret"
  /\ upLock' = 0
  /\ up' = [up EXCEPT ![u].pc = "done"]
  /\ UNCHANGED << execVars, delVars, upReq, file >>

\* two clients call SendFileResource for the same target file
InitUpload ==
  /\ env = [calls |-> {}, spawn |-> {}, out |-> 0, err |-> 0, ticks |-> 0,
            msg |-> 0, stdin |-> "ignored"]
  /\ ExecInit
  /\ DeleteIdle
  /\ upLock = 0
  /\ up = [u \in Uploads |-> [pc |-> "lock", got |-> 0, acks |-> << >>,
                               off |-> 0, touched |-> FALSE, res |-> "none"]]
  /\ upReq \in [Uploads -> [hash : ReqHashes, chunks : ChunkLists]]
  /\ file = [exists |-> FALSE, data |-> << >>]

NextUpload ==
  \/ \E u \in Uploads : UpLock(u)
  \/ \E u \in Uploads : UpRecvMeta(u)
  \/ \E u \in Uploads : UpAck(u)
  \/ \E u \in Uploads : UpOpen(u)
  \/ \E u \in Uploads : UpRecv(u)
  \/ \E u \in Uploads : UpWrite(u)
  \/ \E u \in Uploads : UpReturn(u)

SpecUpload == InitUpload /\ [][NextUpload]_vars

\* ------------------------------------------------------------------ Delete
\* the dataset shard names of the model
Names == {"s1", "s2"}

\* as.storageBackend.DeleteNamedDatasetShard(name): the shard is gone
\* afterwards; the backend keeps to itself whether it was there
StorageDelete(S, name) == S \ {name}

\* as.inMemoryChannels.Cleanup(name): the name's channels are gone afterwards
ChannelsCleanup(C, name) == C \ {name}

\* Delete: as.storageBackend.DeleteNamedDatasetShard(deleteRequest.Name)
DelStorage(d) ==
  /\ del[d].pc = "storage"
  /\ shards' = StorageDelete(shards, del[d].name)
  /\ del' = [del EXCEPT
               ![d].pc = "cleanup",
               ![d].log = Append(@, [op |-> "storage", name |-> del[d].name,
                                     miss |-> del[d].name \notin shards])]
  /\ UNCHANGED << execVars, upVars, channels >>

\* Delete: as.inMemoryChannels.Cleanup(deleteRequest.Name)
DelCleanup(d) ==
  /\ del[d].pc = "cleanup"
  /\ channels' = ChannelsCleanup(channels, del[d].name)
  /\ del' = [del EXCEPT
               ![d].pc = "ret",
               ![d].log = Append(@, [op |-> "cleanup", name |-> del[d].name,
                                     miss |-> del[d].name \notin channels])]
  /\ UNCHANGED << execVars, upVars, shards >>

\* variant: a miss of either collaborator is returned as an error
DeleteResultOnMiss(log) ==
  IF \E i \in 1..Len(log) : log[i].miss THEN "error" ELSE "ok"

\* return &pb.DeleteDatasetShardResponse{}, nil
DeleteResult(log) == "ok"

\* Delete returns
DelReturn(d) ==
  /\ del[d].pc = "ret"
  /\ del' = [del EXCEPT ![d].pc = "done", ![d].res = DeleteResult(del[d].log)]
  /\ UNCHANGED << execVars, upVars, shards, channels >>

\* two Delete calls arrive, for shards that may or may not exist
InitDelete ==
  /\ env = [calls |-> {}, spawn |-> {}, out |-> 0, err |-> 0, ticks |-> 0,
            msg |-> 0, stdin |-> "ignored"]
  /\ ExecInit
  /\ UploadIdle
  /\ shards \in SUBSET Names
  /\ channels \in SUBSET Names
  /\ \E nm \in [Deletes -> Names] :
       del = [d \in Deletes |-> [pc |-> "storage", name |-> nm[d],
                                 log |-> << >>, res |-> "none"]]

NextDelete ==
  \/ \E d \in Deletes : DelStorage(d)
  \/ \E d \in Deletes : DelCleanup(d)
  \/ \E d \in Deletes : DelReturn(d)

SpecDelete == InitDelete /\ [][NextDelete]_vars

\* ------------------------------------------------------------- properties
\* the chunks of one kind on the stream of call c, in emission order
Chunks(c, k) == SelectSeq(stream[c], LAMBDA m : m.kind = k)

\* The concatenation of the chunks chs, placed after the first pos bytes of
\* the pipe: the position of its last byte when the chunks hold exactly the
\* pipe's bytes pos+1, pos+2, ... in order, and -1 when they do not.
RECURSIVE ChunkEnd(_, _)
ChunkEnd(chs, pos) ==
  IF chs = << >> THEN pos
  ELSE IF Head(chs).from # pos THEN -1
  ELSE ChunkEnd(Tail(chs), pos + Head(chs).n)

\* the concatenation of the emitted chunks of kind k is a prefix of the
\* first w bytes written
IsPrefix(c, k, w) == ChunkEnd(Chunks(c, k), 0) \in 0..w

\* the concatenation of the emitted chunks of kind k is all w bytes written
IsAll(c, k, w) == ChunkEnd(Chunks(c, k), 0) = w

HasStats(c) == \E i \in 1..Len(stream[c]) : stream[c][i].kind = "stats"

\* the calls that have completed plusAllocated and not yet minusAllocated
Holding == { c \in Calls : nPlus[c] = 1 /\ nMinus[c] = 0 }

RECURSIVE SumResources(_)
SumResources(S) ==
  IF S = {} THEN Zero
  ELSE LET c == CHOOSE x \in S : TRUE
       IN Plus(RequestResource(c), SumResources(S \ {c}))

\* C1: every call that has returned, by whatever exit path, has performed
\* plusAllocated exactly once and minusAllocated exactly once, and once all
\* calls have returned the ledger has the value it had before they started.
C1_PlusMatchedByMinus ==
  /\ \A c \in Calls : Returned(c) => nPlus[c] = 1 /\ nMinus[c] = 1
  /\ \A c \in Calls : nMinus[c] <= nPlus[c] /\ nPlus[c] <= 1
  /\ (\A c \in env.calls : Returned(c)) => ledger = Zero

C1_Witness ==
  /\ env.calls = {1, 2}
  /\ Returned(1) /\ Returned(2)
  /\ result[1] = "cancelled"
  /\ result[2] = "error"

\* C2: the ledger is the elementwise sum of the allocations of the calls
\* that have performed plusAllocated and not yet minusAllocated, in every
\* reachable state, and it is never negative on any axis.
C2_LedgerIsSumOfHeld ==
  /\ ledger = SumResources(Holding)
  /\ ledger.cpu >= 0 /\ ledger.mem >= 0 /\ ledger.gpu >= 0

C2_Witness ==
  /\ Holding = {1, 2}
  /\ ledger = [cpu |-> 5, mem |-> 3072, gpu |-> 1]

\* C3 (as claimed): an exit-stats message is the last message of its stream.
C3_ExitStatsLast ==
  \A c \in Calls : \A i \in 1..Len(stream[c]) :
    stream[c][i].kind = "stats" => i = Len(stream[c])

\* C4 (as claimed): when a call has returned success, the stdout chunks on
\* its stream concatenate to all bytes the child wrote to stdout, and the
\* stderr chunks to all bytes it wrote to stderr.
C4_NoByteLost ==
  \A c \in Calls :
    (Returned(c) /\ result[c] = "ok") =>
      IsAll(c, "out", outW[c]) /\ IsAll(c, "err", errW[c])

\* C5: at all times the stdout chunks emitted so far concatenate to a prefix
\* of the bytes the child has written to stdout, the stderr chunks to a
\* prefix of its stderr bytes, and every chunk has between 1 and 1024 bytes.
C5_OrderPreserved ==
  \A c \in Calls :
    /\ IsPrefix(c, "out", outW[c])
    /\ IsPrefix(c, "err", errW[c])
    /\ \A i \in 1..Len(stream[c]) :
         stream[c][i].kind \in {"out", "err"} =>
           stream[c][i].n >= 1 /\ stream[c][i].n <= BufSize

C5_Witness ==
  /\ Len(Chunks(1, "out")) = 2
  /\ Chunks(1, "out")[1].n = BufSize
  /\ Chunks(1, "out")[2].n = 1
  /\ Len(Chunks(1, "err")) = 1

\* C6 (as claimed): a call whose context was cancelled while the supervisor
\* was streaming and the child was running does not return with the child
\* left running: the supervisor kills it.
C6_CancelKillsChild ==
  \A c \in Calls :
    (cancelLive[c] /\ Returned(c)) => ~ChildAlive(c)

\* C7 (as claimed): once a call has returned because of cancellation, no
\* message is added to its stream.
C7_SilentAfterCancelReturn ==
  [][\A c \in Calls :
       (Returned(c) /\ result[c] = "cancelled") => stream'[c] = stream[c]]_vars

\* C8: a call returns success only if its child exited with status zero; a
\* child that exited with a nonzero status (or was killed) never leads to an
\* exit-stats message; exit stats are sent at most once, and only after the
\* exit waiter has reported a clean exit; a nil on the error channel comes
\* from the exit waiter of a cleanly exited child.
C8_StatsOnlyAfterCleanExit ==
  \A c \in Calls :
    /\ child[c] \in {"exited1", "killed"} =>
         result[c] # "ok" /\ ~HasStats(c)
           /\ pc[c] \notin {"statsLive", "statsDead"}
    /\ Len(Chunks(c, "stats")) <= 1
    /\ (HasStats(c) \/ pc[c] \in {"statsLive", "statsDead"}) =>
         child[c] = "exited0" /\ waitPc[c] = "done"
    /\ (\E i \in 1..Len(errChan[c]) : errChan[c][i] = "nil") =>
         child[c] = "exited0" /\ waitPc[c] = "done"

C8_Witness ==
  /\ child[1] = "exited1"
  /\ waitPc[1] = "done"
  /\ Returned(1)
  /\ result[1] = "error"

\* C9 (as claimed, for the keepalive): once a Send of the keepalive pulse
\* has failed, the call eventually returns an error and its allocation is
\* released.
C9_FailedSendAbortsCall ==
  \A c \in Calls :
    (pulsePc[c] = "dead") ~>
      (Returned(c) /\ result[c] \notin {"none", "ok"} /\ nMinus[c] = 1)

\* C10 (as claimed): a call that has spawned its child has closed the
\* child's stdin by the time it returns.
C10_StdinClosedOnReturn ==
  \A c \in Calls :
    (Returned(c) /\ child[c] # "none") => stdinClosed[c]


\* C11: a call whose pipes or child could not be created returns that error
\* having emitted nothing and started no pump, keepalive or exit waiter, and
\* by the time it has returned its allocation is released.
C11_SpawnFailureIsClean ==
  \A c \in Calls :
    (child[c] = "none" /\ pc[c] \in {"minusLock", "minusRead", "minusWrite",
                                     "done"}) =>
      /\ result[c] = "error"
      /\ stream[c] = << >>
      /\ errChan[c] = << >>
      /\ outPc[c] = "none" /\ errPc[c] = "none"
      /\ pulsePc[c] = "none" /\ waitPc[c] = "none"
      /\ Returned(c) => (nMinus[c] = 1 /\ c \notin Holding)

C11_Witness ==
  /\ env.calls = {1}
  /\ child[1] = "none"
  /\ Returned(1)
  /\ ledger = Zero


\* the handler of upload u is between its first Recv and its return
UpInside(u) == up[u].pc \in {"recv1", "ack", "open", "recv", "write", "ret"}

\* C12 (as claimed): when SendFileResource returns success, the hash of the
\* target file is the hash the client asked for in its metadata message.
C12_HashMatchesAfterSuccess ==
  \A u \in Uploads :
    (up[u].pc = "ret" /\ up[u].res = "ok") =>
      (file.exists /\ HashOf(file.data) = upReq[u].hash)

\* C13: a call never sends more than one acknowledgement, sends it after
\* the metadata message and before it consumes any content chunk or touches
\* the file, and has sent exactly one when it returns success; when the file
\* already exists with the requested hash the acknowledgement says
\* already_present, the call returns success, and it has consumed no chunk
\* and has not opened, truncated or written the file.
C13_OneAckAndShortCircuit ==
  \A u \in Uploads :
    /\ Len(up[u].acks) <= 1
    /\ up[u].pc \in {"absent", "lock", "recv1", "ack"} =>
         up[u].acks = << >> /\ up[u].got = 0 /\ ~up[u].touched
    /\ (up[u].got > 0 \/ up[u].touched) => up[u].acks = << FALSE >>
    /\ up[u].res = "ok" => Len(up[u].acks) = 1
    /\ up[u].acks = << TRUE >> =>
         /\ up[u].pc \in {"ret", "done"}
         /\ up[u].res = "ok"
         /\ up[u].got = 0
         /\ ~up[u].touched
    /\ (up[u].pc = "ret" /\ up[u].acks = << TRUE >>) => HasSameHash(u)
    /\ (up[u].pc = "open") => ~HasSameHash(u)

C13_Witness ==
  /\ up[1].pc = "done" /\ up[1].touched
  /\ up[2].pc = "done" /\ up[2].acks = << TRUE >>
  /\ Len(upReq[2].chunks) = 2
  /\ up[2].res = "ok"

\* C14: at most one SendFileResource handler is between its first Recv and
\* its return, and when a call that was not short-circuited returns success
\* the file holds exactly the concatenation of that call's content chunks
\* in arrival order.
C14_UploadsSerialized ==
  /\ Cardinality({ u \in Uploads : UpInside(u) }) <= 1
  /\ \A u \in Uploads : UpInside(u) => upLock = u
  /\ \A u \in Uploads :
       (up[u].pc = "ret" /\ up[u].res = "ok" /\ up[u].acks = << FALSE >>) =>
         (file.exists /\ file.data = Concat(upReq[u].chunks))

C14_Witness ==
  /\ up[1].pc = "done" /\ up[1].touched /\ file.data # << >>
  /\ up[2].pc = "ret" /\ up[2].res = "ok" /\ up[2].acks = << FALSE >>
  /\ Len(upReq[2].chunks) = 2
  /\ upReq[1].chunks # upReq[2].chunks


\* C15: Delete calls the storage backend's delete for the named shard and
\* then the channel registry's cleanup for the same name, in that order and
\* once each, and returns success whatever either of them found.
C15_DeleteAlwaysSucceeds ==
  \A d \in Deletes :
    /\ Len(del[d].log) <= 2
    /\ \A i \in 1..Len(del[d].log) :
         /\ del[d].log[i].name = del[d].name
         /\ del[d].log[i].op = IF i = 1 THEN "storage" ELSE "cleanup"
    /\ del[d].pc \in {"ret", "done"} => Len(del[d].log) = 2
    /\ del[d].pc = "done" => del[d].res = "ok"
    /\ del[d].pc = "done" =>
         del[d].name \notin shards /\ del[d].name \notin channels

C15_Witness ==
  /\ del[1].pc = "done"
  /\ del[1].res = "ok"
  /\ del[1].log[1].miss
  /\ ~del[1].log[2].miss


\* the emitters of call c that are inside stream.Send
InSend(c) ==
  (IF outPc[c] \in {"sendLive", "sendDead"} THEN {"stdout"} ELSE {})
    \cup (IF errPc[c] \in {"sendLive", "sendDead"} THEN {"stderr"} ELSE {})
    \cup (IF pulsePc[c] \in {"sendLive", "sendDead"} THEN {"pulse"} ELSE {})
    \cup (IF pc[c] \in {"statsLive", "statsDead"} THEN {"stats"} ELSE {})

\* C16 (as claimed): while the supervisor is still marshalling the
\* instructions, writing them to the child's stdin or closing stdin, the
\* pumps and the keepalive have not been started, nothing has been emitted
\* on the stream and nothing is on the error channel.
C16_NoStreamingBeforeHandoff ==
  \A c \in Calls :
    pc[c] \in {"marshal", "write", "close"} =>
      /\ outPc[c] = "none" /\ errPc[c] = "none" /\ pulsePc[c] = "none"
      /\ stream[c] = << >>
      /\ errChan[c] = << >>

\* C17 (as claimed): at no time are two emitters of one call inside
\* stream.Send.
C17_SendsSerialized ==
  \A c \in Calls : Cardinality(InSend(c)) <= 1

\* a pump of call c has reported an error and returned
PumpFailed(c) ==
  \/ outPc[c] \in {"failed", "readErr"}
  \/ errPc[c] \in {"failed", "readErr"}

\* C18 (as claimed): once a pump's error has failed the call, and the exit
\* waiter is still waiting for the child, the waiter eventually sees the
\* child's termination, although no kill is issued and the failed pump no
\* longer drains the pipe.
C18_WaiterObservesExit ==
  \A c \in Calls :
    (PumpFailed(c) /\ result[c] = "error" /\ waitPc[c] = "waiting") ~>
      (waitPc[c] \in {"reaped", "released", "done"})

\* C19 (as claimed, its last part): the deferred stop signal never blocks
\* the supervisor forever; a supervisor that has reached it returns.
C19_StopNeverBlocks ==
  \A c \in Calls : (pc[c] = "stop") ~> (pc[c] # "stop")

\* the reporters of call c that have put their value on errChan: each pump
\* that ended with an error, and the exit waiter once it has reported
Reported(c) ==
  (IF outPc[c] \in {"failed", "readErr"} THEN {"stdout"} ELSE {})
    \cup (IF errPc[c] \in {"failed", "readErr"} THEN {"stderr"} ELSE {})
    \cup (IF waitPc[c] = "done" THEN {"waiter"} ELSE {})

\* the reporter a value on errChan came from
ReporterOf(v) == IF v \in {"nil", "wait"} THEN "waiter" ELSE v

\* the reporters of call c that may still put a value on errChan
MayReport(c) ==
  (IF outPc[c] \in {"read", "sendLive", "sendDead"} THEN {"stdout"} ELSE {})
    \cup (IF errPc[c] \in {"read", "tee", "sendLive", "sendDead"}
           THEN {"stderr"} ELSE {})
    \cup (IF waitPc[c] \in {"waiting", "reaped", "released"} THEN {"waiter"}
                                                             ELSE {})

\* C20: errChan holds at most one value of each reporter, only values of
\* reporters that have reported and returned, never more than its capacity,
\* and a reporter that may still report finds room on it, also after the
\* supervisor has returned.
C20_ReportersNeverBlock ==
  \A c \in Calls :
    /\ \A i \in 1..Len(errChan[c]) : ReporterOf(errChan[c][i]) \in Reported(c)
    /\ \A i, j \in 1..Len(errChan[c]) :
         i # j => ReporterOf(errChan[c][i]) # ReporterOf(errChan[c][j])
    /\ Len(errChan[c]) <= ErrChanCap
    /\ MayReport(c) # {} => Len(errChan[c]) < ErrChanCap

C20_Witness ==
  /\ Returned(1)
  /\ Len(errChan[1]) = ErrChanCap
  /\ Reported(1) = {"stdout", "stderr", "waiter"}

====
